---- MODULE Spec2Model ----
(***************************************************************************)
(* Model of the MagicStreamMovies server handlers                          *)
(* (controllers/user_controller.go and the movie controller).              *)
(*                                                                         *)
(* Every racing handler creates two buffered channels, spawns one worker   *)
(* goroutine that talks to the store under its own context deadline, and   *)
(* then blocks in a select over {success channel, error channel,           *)
(* time.After(10s)}.  The model keeps, per request, the handler position,  *)
(* the worker position, the two channels, the timer channel, the contexts  *)
(* and the HTTP responses written; the two collections are shared.         *)
(*                                                                         *)
(* Time is a global clock `now` in seconds.  Non-blocking statements take  *)
(* no time; time passes only while a handler is blocked in select or a     *)
(* goroutine is blocked in a store call, and never passes a due timer, a   *)
(* ready select case or an expired context (Tick).                         *)
(***************************************************************************)
EXTENDS Integers, Sequences, FiniteSets, TLC

(***************************************************************************)
(* Bounds of the model.                                                    *)
(***************************************************************************)
NReq == 2           \* request slots of the concurrent specification
TickStep == 5       \* seconds the clock advances per Tick
MaxTime == 120      \* the clock stops here
MaxRatingInput == 11 \* largest rating a client submits
CatalogLen == 33    \* movies in the large initial catalog
MaxMovies == 3      \* a request slot is reused only while the catalog is smaller

(***************************************************************************)
(* Program constants.                                                      *)
(***************************************************************************)
UnbufferedCap == 1 - 1  \* make(chan ...) without a buffer
ChanCap == 1            \* make(chan ..., 1)
ExternalWait == 10      \* time.After(10 * time.Second)
LongDeadline == 100     \* context.WithTimeout(..., 100*time.Second)
ShortDeadline == 10     \* context.WithTimeout(..., 10*time.Second)
TopRatedMin == 7        \* "$gte": 7
TopRatedLimit == 20     \* SetLimit(20)
GenreLimit == 20        \* SetLimit(20)
RecommendMin == 6       \* "$gte": 6
RecommendLimit == 10    \* SetLimit(10)
RatingMin == 1          \* validate:"min=1"
RatingMax == 10         \* validate:"max=10"

Req == 1..NReq
Ratings == (0 - 1)..MaxRatingInput

RacingKinds == {"GetMovies", "GetMovie", "GetTopRatedMovies", "GetMoviesByGenre",
                "MakeMovies", "GetRecommendedMovies", "RegisterUser", "Login"}
Kinds == RacingKinds \cup {"AdminReviewUpdate"}

(***************************************************************************)
(* Data.  Genre names are sequences of characters so that the              *)
(* case-insensitive $regex match of GetMoviesByGenre can be computed.      *)
(***************************************************************************)
Emails == {"a@x", "b@x"}
Passwords == {"p1", "p2"}
ImdbIds == {"tt1", "tt2"}
GAction == <<"A", "c">>
GDrama == <<"D", "r">>
GenreNames == {GAction, GDrama}

\* bcrypt.GenerateFromPassword: a one-way function of the password.
HashOf(pw) == IF pw = "p1" THEN "h1" ELSE IF pw = "p2" THEN "h2" ELSE "h?"

\* a comparison that accepts every password
PasswordMatchesAny(hash, pw) == TRUE

\* bcrypt.CompareHashAndPassword: nil exactly when the hash is the password's.
PasswordMatches(hash, pw) == hash = HashOf(pw)

NoToken == <<>>
\* the zero value of models.User (var user models.User)
ZeroUser == [user_id |-> 0, email |-> "", password |-> "", genres |-> <<>>,
             token |-> NoToken, refresh_token |-> NoToken]

\* bson.NewObjectID(): fresh per call; the worker of request r draws it once.
NewObjectID(r) == r

Alice == [user_id |-> 11, email |-> "a@x", password |-> HashOf("p1"),
          genres |-> <<GAction>>, token |-> NoToken, refresh_token |-> NoToken]
Bob == [user_id |-> 12, email |-> "b@x", password |-> HashOf("p2"),
        genres |-> <<>>, token |-> NoToken, refresh_token |-> NoToken]

MovieA == [imdb_id |-> "tt1", genres |-> <<GAction>>, ranking_value |-> 8,
           ranking_name |-> "good", admin_review |-> ""]
MovieB == [imdb_id |-> "tt2", genres |-> <<GDrama>>, ranking_value |-> 0,
           ranking_name |-> "", admin_review |-> ""]

\* a catalog larger than every SetLimit: ranking values 5..10, both genres
BigCatalog ==
    [i \in 1..CatalogLen |->
        [imdb_id |-> "m" \o ToString(i),
         genres |-> IF i % 3 = 0 THEN <<GDrama, GAction>>
                    ELSE IF i % 2 = 0 THEN <<GAction>> ELSE <<GDrama>>,
         ranking_value |-> 5 + (i % 6),
         ranking_name |-> IF 5 + (i % 6) >= 9 THEN "excellent"
                          ELSE IF 5 + (i % 6) >= 7 THEN "good" ELSE "average",
         admin_review |-> ""]]

InitUsers == {<<>>, <<Alice>>, <<Alice, Bob>>}
InitMovies == {<<>>, <<MovieB, MovieA>>, BigCatalog}

VARIABLES
    now,      \* the clock, in seconds
    users,    \* the User collection: a sequence of documents, in insertion order
    movies,   \* the Movie collection
    req,      \* req[r]: the request in slot r (its kind and payload)
    hpc,      \* hpc[r]: position of the handler
    wpc,      \* wpc[r]: position of the worker goroutine
    okCh,     \* okCh[r]: the success channel (moviesChan, userMade, userToken, movieMade)
    errCh,    \* errCh[r]: errorChan
    tch,      \* tch[r]: the channel of time.After: "off", "armed" or "fired"
    tsel,     \* tsel[r]: when the select (and its timer) started
    hctx,     \* hctx[r]: when the handler's own store context was created (-1: none)
    wctx,     \* wctx[r]: when the worker's context was created (-1: none)
    hl,       \* hl[r]: the handler's local variables
    wl,       \* wl[r]: the worker's local variables
    resp,     \* resp[r]: the HTTP responses written for the request, in order
    tstart    \* tstart[r]: when the request arrived

vars == <<now, users, movies, req, hpc, wpc, okCh, errCh, tch, tsel, hctx, wctx,
          hl, wl, resp, tstart>>

NoReq == [kind |-> "none"]
NoHl == [rankingName |-> "", genreNames |-> <<>>, outcome |-> "none", err |-> ""]
NoWl == [user |-> ZeroUser, lookup |-> "none", count |-> 0 - 1, pending |-> <<>>,
         id |-> "", late |-> FALSE]

Init ==
    /\ now = 0
    /\ users \in InitUsers
    /\ movies \in InitMovies
    /\ req = [r \in Req |-> NoReq]
    /\ hpc = [r \in Req |-> "idle"]
    /\ wpc = [r \in Req |-> "none"]
    /\ okCh = [r \in Req |-> <<>>]
    /\ errCh = [r \in Req |-> <<>>]
    /\ tch = [r \in Req |-> "off"]
    /\ tsel = [r \in Req |-> 0 - 1]
    /\ hctx = [r \in Req |-> 0 - 1]
    /\ wctx = [r \in Req |-> 0 - 1]
    /\ hl = [r \in Req |-> NoHl]
    /\ wl = [r \in Req |-> NoWl]
    /\ resp = [r \in Req |-> <<>>]
    /\ tstart = [r \in Req |-> 0 - 1]

(***************************************************************************)
(* The store's queries, computed as the driver computes them.              *)
(***************************************************************************)
\* strings.ToLower on one character ("$options": "i")
LowerChar(c) == IF c = "A" THEN "a" ELSE IF c = "D" THEN "d" ELSE c

Lower(s) == [i \in 1..Len(s) |-> LowerChar(s[i])]

\* "$regex": pat on one genre name: an unanchored, case-insensitive match
RegexMatch(name, pat) ==
    \E i \in 1..(Len(name) + 1) :
        /\ i + Len(pat) - 1 <= Len(name)
        /\ SubSeq(Lower(name), i, i + Len(pat) - 1) = Lower(pat)

\* SetLimit(n)
Limit(s, n) == IF Len(s) <= n THEN s ELSE SubSeq(s, 1, n)

\* SetSort(bson.D{{Key: "ranking.ranking_value", Value: -1}}): descending on
\* the ranking value, documents of equal value in collection order
SortDesc(s) ==
    LET n == Len(s)
        Before(i, j) == \/ s[i].ranking_value > s[j].ranking_value
                        \/ s[i].ranking_value = s[j].ranking_value /\ i < j
        Rank(j) == Cardinality({i \in 1..n : Before(i, j)}) + 1
    IN [p \in 1..n |-> s[CHOOSE j \in 1..n : Rank(j) = p]]

\* movieCollection.Find(ctx, bson.M{})
FindAll(coll) == coll

IsImdb(m, id) == m.imdb_id = id
\* a lookup that returns the first match only
FindByImdbFirst(coll, id) == Limit(SelectSeq(coll, LAMBDA m : IsImdb(m, id)), 1)

\* movieCollection.Find(ctx, bson.M{"imdb_id": id})
FindByImdb(coll, id) == SelectSeq(coll, LAMBDA m : IsImdb(m, id))

IsTopRated(m) == m.ranking_value >= TopRatedMin
\* the query without its SetLimit
FindTopRatedNoLimit(coll) == SortDesc(SelectSeq(coll, IsTopRated))

\* GetTopRatedMovies: filter, sort, limit
FindTopRated(coll) == Limit(SortDesc(SelectSeq(coll, IsTopRated)), TopRatedLimit)

HasGenreLike(m, pat) == \E i \in 1..Len(m.genres) : RegexMatch(m.genres[i], pat)
\* GetMoviesByGenre: filter, limit
FindByGenre(coll, pat) ==
    Limit(SelectSeq(coll, LAMBDA m : HasGenreLike(m, pat)), GenreLimit)

\* a filter on the ranking value alone
IsRecommendedAnyGenre(m, names) == m.ranking_value >= RecommendMin

IsRecommended(m, names) ==
    /\ \E i \in 1..Len(m.genres) : \E j \in 1..Len(names) : m.genres[i] = names[j]
    /\ m.ranking_value >= RecommendMin
\* GetRecommendedMovies: filter, sort, limit
FindRecommended(coll, names) ==
    Limit(SortDesc(SelectSeq(coll, LAMBDA m : IsRecommended(m, names))), RecommendLimit)

\* userCollection.CountDocuments(ctx, bson.M{"email": email})
CountByEmail(coll, email) == Cardinality({i \in 1..Len(coll) : coll[i].email = email})

\* FindOne: the first matching document, by position
FirstIndex(coll, P(_)) ==
    IF \E i \in 1..Len(coll) : P(coll[i])
    THEN CHOOSE i \in 1..Len(coll) : P(coll[i]) /\ \A j \in 1..(i - 1) : ~P(coll[j])
    ELSE 0

(***************************************************************************)
(* Validation and the rating table.                                        *)
(***************************************************************************)
\* validate:"required,min=1,max=10" on req.Rating and "required" on AdminReview
ValidRating(rating) == rating # 0 /\ rating >= RatingMin /\ rating <= RatingMax

ValidReview(review, rating) == review # "" /\ ValidRating(rating)

\* the table with its first threshold off by one
getRatingNameShifted(rating) ==
    IF rating > 9 THEN "excellent"
    ELSE IF rating >= 7 THEN "good"
    ELSE IF rating >= 5 THEN "average"
    ELSE IF rating >= 3 THEN "poor"
    ELSE "terrible"

getRatingName(rating) ==
    IF rating >= 9 THEN "excellent"
    ELSE IF rating >= 7 THEN "good"
    ELSE IF rating >= 5 THEN "average"
    ELSE IF rating >= 3 THEN "poor"
    ELSE "terrible"

\* movieValidate.Struct(movie): the tags of models.Movie; a Ranking that is
\* present needs a non-zero value and a non-empty name, nothing more.
ValidMovie(m) ==
    /\ m.imdb_id # ""
    /\ m.genres # <<>>
    /\ \/ (m.ranking_value = 0 /\ m.ranking_name = "")
       \/ (m.ranking_value # 0 /\ m.ranking_name # "")

(***************************************************************************)
(* The requests a client can send.                                         *)
(***************************************************************************)
MoviePayloads ==
    { [imdb_id |-> i, genres |-> <<GAction>>, ranking_value |-> 0,
       ranking_name |-> "", admin_review |-> ""] : i \in ImdbIds \cup {""} }
    \cup
    { [imdb_id |-> "tt1", genres |-> <<GDrama>>, ranking_value |-> rk[1],
       ranking_name |-> rk[2], admin_review |-> ""] :
         rk \in {<<9, "excellent">>, <<42, "good">>, <<0, "good">>} }

RequestsOf(k) ==
    CASE k = "GetMovies" -> {[kind |-> k]}
      [] k = "GetMovie" -> {[kind |-> k, imdb |-> i] : i \in ImdbIds \cup {"tt9"}}
      [] k = "GetTopRatedMovies" -> {[kind |-> k]}
      [] k = "GetMoviesByGenre" ->
            {[kind |-> k, genre |-> g] : g \in {<<>>, <<"a">>, <<"d", "r">>}}
      [] k = "MakeMovies" ->
            {[kind |-> k, bindOk |-> FALSE, movie |-> CHOOSE m \in MoviePayloads : m.imdb_id = ""]}
            \cup {[kind |-> k, bindOk |-> TRUE, movie |-> m] : m \in MoviePayloads}
      [] k = "AdminReviewUpdate" ->
            {[kind |-> k, imdb |-> "", bindOk |-> TRUE, review |-> "rv", rating |-> 5],
             [kind |-> k, imdb |-> "tt1", bindOk |-> FALSE, review |-> "", rating |-> 0]}
            \cup {[kind |-> k, imdb |-> i, bindOk |-> TRUE, review |-> "rv", rating |-> n] :
                    i \in {"tt1", "tt9"}, n \in Ratings}
            \cup {[kind |-> k, imdb |-> "tt1", bindOk |-> TRUE, review |-> "", rating |-> 5]}
      [] k = "GetRecommendedMovies" ->
            {[kind |-> k, userId |-> u] : u \in {0, 11, 12, 99}}
      [] k = "RegisterUser" ->
            {[kind |-> k, bindOk |-> FALSE, email |-> "a@x", password |-> "p1", valid |-> TRUE]}
            \cup {[kind |-> k, bindOk |-> TRUE, email |-> e, password |-> "p1", valid |-> v] :
                    e \in Emails, v \in BOOLEAN}
      [] k = "Login" ->
            {[kind |-> k, bindOk |-> FALSE, email |-> "a@x", password |-> "p1"]}
            \cup {[kind |-> k, bindOk |-> TRUE, email |-> e, password |-> p] :
                    e \in Emails, p \in Passwords}

\* a request arrives in a free slot
Start(r, K) ==
    /\ hpc[r] = "idle"
    /\ \E k \in K : \E q \in RequestsOf(k) : req' = [req EXCEPT ![r] = q]
    /\ hpc' = [hpc EXCEPT ![r] = "recv"]
    /\ tstart' = [tstart EXCEPT ![r] = now]
    /\ UNCHANGED <<now, users, movies, wpc, okCh, errCh, tch, tsel, hctx, wctx, hl, wl, resp>>

(***************************************************************************)
(* The handlers, up to the point where they block.                         *)
(***************************************************************************)
\* c.JSON(code, body) followed by the handler's return
Reply(r, code, body) ==
    /\ resp' = [resp EXCEPT ![r] = Append(@, [code |-> code, body |-> body, at |-> now])]
    /\ hpc' = [hpc EXCEPT ![r] = "done"]

\* go func() {...}() followed by the select statement and its time.After
Spawn(r) ==
    /\ wpc' = [wpc EXCEPT ![r] = "spawned"]
    /\ hpc' = [hpc EXCEPT ![r] = "select"]
    /\ tch' = [tch EXCEPT ![r] = "armed"]
    /\ tsel' = [tsel EXCEPT ![r] = now]

\* GetMovies, GetMovie, GetTopRatedMovies: no synchronous check at all
BeginRead(r) ==
    /\ hpc[r] = "recv"
    /\ req[r].kind \in {"GetMovies", "GetMovie", "GetTopRatedMovies"}
    /\ Spawn(r)
    /\ UNCHANGED <<now, users, movies, req, okCh, errCh, hctx, wctx, hl, wl, resp, tstart>>

BeginByGenre(r) ==
    /\ hpc[r] = "recv"
    /\ req[r].kind = "GetMoviesByGenre"
    /\ IF req[r].genre = <<>>
       THEN /\ Reply(r, 400, "Genre parameter required")
            /\ UNCHANGED <<wpc, tch, tsel>>
       ELSE /\ Spawn(r)
            /\ UNCHANGED resp
    /\ UNCHANGED <<now, users, movies, req, okCh, errCh, hctx, wctx, hl, wl, tstart>>

BeginMakeMovies(r) ==
    /\ hpc[r] = "recv"
    /\ req[r].kind = "MakeMovies"
    /\ IF ~req[r].bindOk
       THEN /\ Reply(r, 400, "Invalid JSON")
            /\ UNCHANGED <<wpc, tch, tsel>>
       ELSE IF ~ValidMovie(req[r].movie)
       THEN /\ Reply(r, 400, "Validation failed")
            /\ UNCHANGED <<wpc, tch, tsel>>
       ELSE /\ Spawn(r)
            /\ UNCHANGED resp
    /\ UNCHANGED <<now, users, movies, req, okCh, errCh, hctx, wctx, hl, wl, tstart>>

\* RegisterUser up to the select: bind, hash, spawn.  The struct `user` is
\* shared by the handler and the worker; it lives in wl[r].user.
BeginRegister(r) ==
    /\ hpc[r] = "recv"
    /\ req[r].kind = "RegisterUser"
    /\ IF ~req[r].bindOk
       THEN /\ Reply(r, 400, "Invalid JSON")
            /\ UNCHANGED <<wpc, tch, tsel, wl>>
       ELSE \E hashOk \in BOOLEAN :
              IF ~hashOk
              THEN /\ Reply(r, 500, "Failed to hash password")
                   /\ UNCHANGED <<wpc, tch, tsel, wl>>
              ELSE /\ Spawn(r)
                   /\ wl' = [wl EXCEPT ![r].user =
                               [ZeroUser EXCEPT !.email = req[r].email,
                                                !.password = req[r].password]]
                   /\ UNCHANGED resp
    /\ UNCHANGED <<now, users, movies, req, okCh, errCh, hctx, wctx, hl, tstart>>

BeginLogin(r) ==
    /\ hpc[r] = "recv"
    /\ req[r].kind = "Login"
    /\ IF ~req[r].bindOk
       THEN /\ Reply(r, 400, "Invalid JSON")
            /\ UNCHANGED <<wpc, tch, tsel>>
       ELSE /\ Spawn(r)
            /\ UNCHANGED resp
    /\ UNCHANGED <<now, users, movies, req, okCh, errCh, hctx, wctx, hl, wl, tstart>>

\* AdminReviewUpdate up to its UpdateOne: no worker, no select
BeginAdminReview(r) ==
    /\ hpc[r] = "recv"
    /\ req[r].kind = "AdminReviewUpdate"
    /\ IF req[r].imdb = ""
       THEN /\ Reply(r, 400, "Movie ID required")
            /\ UNCHANGED <<hctx, hl>>
       ELSE IF ~req[r].bindOk
       THEN /\ Reply(r, 400, "Invalid request data")
            /\ UNCHANGED <<hctx, hl>>
       ELSE IF ~ValidReview(req[r].review, req[r].rating)
       THEN /\ Reply(r, 400, "Validation failed")
            /\ UNCHANGED <<hctx, hl>>
       ELSE /\ hl' = [hl EXCEPT ![r].rankingName = getRatingName(req[r].rating)]
            /\ hctx' = [hctx EXCEPT ![r] = now]
            /\ hpc' = [hpc EXCEPT ![r] = "update"]
            /\ UNCHANGED resp
    /\ UNCHANGED <<now, users, movies, req, wpc, okCh, errCh, tch, tsel, wctx, wl, tstart>>

\* GetRecommendedMovies up to getUserById's FindOne
BeginRecommended(r) ==
    /\ hpc[r] = "recv"
    /\ req[r].kind = "GetRecommendedMovies"
    /\ IF req[r].userId = 0
       THEN /\ Reply(r, 400, "User ID required")
            /\ UNCHANGED hctx
       ELSE /\ hctx' = [hctx EXCEPT ![r] = now]
            /\ hpc' = [hpc EXCEPT ![r] = "lookup"]
            /\ UNCHANGED resp
    /\ UNCHANGED <<now, users, movies, req, wpc, okCh, errCh, tch, tsel, wctx, hl, wl, tstart>>

(***************************************************************************)
(* Store calls.  A call made under a context created at `start` with       *)
(* deadline d returns a result or a failure before the deadline and the    *)
(* context's error once the deadline has passed.                           *)
(***************************************************************************)
StoreOutcomes(start, d) == IF now - start >= d THEN {"deadline"} ELSE {"ok", "fail"}

\* err.Error() of a failed store call
StoreErr(o) == IF o = "deadline" THEN "context deadline exceeded" ELSE "store error"

\* the worker's context.WithTimeout at each call site
DeadlineOf(kind) ==
    IF kind \in {"GetTopRatedMovies", "GetMoviesByGenre", "GetRecommendedMovies"}
    THEN ShortDeadline ELSE LongDeadline

DuplicateEmailMsg == "User with this email already exists"
\* the check written as count > 1
DuplicateFoundLoose(count) == count > 1

\* if count > 0
DuplicateFound(count) == count > 0

\* an update that leaves the ranking name as it was
SetReviewKeepsName(coll, i, review, rating, name) ==
    [coll EXCEPT ![i].admin_review = review, ![i].ranking_value = rating]

\* UpdateOne's "$set" on the first document the filter matches
SetReview(coll, i, review, rating, name) ==
    [coll EXCEPT ![i].admin_review = review,
                 ![i].ranking_value = rating,
                 ![i].ranking_name = name]

\* AdminReviewUpdate: UpdateOne under the handler's own 10 s context
HandlerUpdate(r) ==
    /\ hpc[r] = "update"
    /\ \E o \in StoreOutcomes(hctx[r], ShortDeadline) :
         IF o # "ok"
         THEN /\ Reply(r, 500, "Failed to update movie")
              /\ hl' = [hl EXCEPT ![r].err = StoreErr(o)]
              /\ UNCHANGED movies
         ELSE LET i == FirstIndex(movies, LAMBDA m : IsImdb(m, req[r].imdb)) IN
              IF i = 0
              THEN /\ Reply(r, 404, "Movie not found")
                   /\ UNCHANGED <<movies, hl>>
              ELSE /\ UNCHANGED hl
                   /\ movies' = SetReview(movies, i, req[r].review, req[r].rating,
                                           hl[r].rankingName)
                   /\ Reply(r, 200, [admin_review |-> req[r].review,
                                     rating |-> req[r].rating,
                                     ranking_name |-> hl[r].rankingName])
    /\ UNCHANGED <<now, users, req, wpc, okCh, errCh, tch, tsel, hctx, wctx, wl, tstart>>

\* a handler that never takes the empty-favourites branch
NoFavouritesNever(names) == FALSE

\* if len(genreNames) == 0
NoFavourites(names) == Len(names) = 0

\* the body of the empty-favourites reply
EmptyStateBody ==
    [message |-> "No favorite genres set for user", movies |-> <<>>, user_genres |-> <<>>]

\* GetRecommendedMovies: getUserById, the empty-favourites reply, the spawn
HandlerLookup(r) ==
    /\ hpc[r] = "lookup"
    /\ \E o \in StoreOutcomes(hctx[r], ShortDeadline) :
         LET i == IF o = "ok"
                  THEN FirstIndex(users, LAMBDA u : u.user_id = req[r].userId)
                  ELSE 0
         IN IF i = 0
            THEN /\ Reply(r, 404, "User not found")
                 /\ hl' = [hl EXCEPT ![r].err = IF o = "ok" THEN "no documents" ELSE StoreErr(o)]
                 /\ UNCHANGED <<wpc, tch, tsel>>
            ELSE IF NoFavourites(users[i].genres)
            THEN /\ Reply(r, 200, EmptyStateBody)
                 /\ UNCHANGED <<wpc, tch, tsel, hl>>
            ELSE /\ Spawn(r)
                 /\ hl' = [hl EXCEPT ![r].genreNames = users[i].genres]
                 /\ UNCHANGED resp
    /\ UNCHANGED <<now, users, movies, req, okCh, errCh, hctx, wctx, wl, tstart>>

(***************************************************************************)
(* The worker goroutines.                                                  *)
(***************************************************************************)
\* a RegisterUser worker that inserts without counting first
FirstCallSkipsCount(kind) ==
    CASE kind = "MakeMovies" -> "insert"
      [] kind = "RegisterUser" -> "insert"
      [] kind = "Login" -> "findone"
      [] OTHER -> "find"

FirstCall(kind) ==
    CASE kind = "MakeMovies" -> "insert"
      [] kind = "RegisterUser" -> "count"
      [] kind = "Login" -> "findone"
      [] OTHER -> "find"

\* c.Param("imdb_id") read inside the goroutine: once the handler has
\* returned gin recycles the context, and the read yields whatever it holds.
ParamRead(r) ==
    IF hpc[r] = "done" THEN ImdbIds \cup {"tt9", ""} ELSE {req[r].imdb}

\* the goroutine starts: context.WithTimeout, defer cancel()
WorkerStart(r) ==
    /\ wpc[r] = "spawned"
    /\ wctx' = [wctx EXCEPT ![r] = now]
    /\ wpc' = [wpc EXCEPT ![r] = FirstCall(req[r].kind)]
    /\ IF req[r].kind = "GetMovie"
       THEN \E id \in ParamRead(r) : wl' = [wl EXCEPT ![r].id = id]
       ELSE UNCHANGED wl
    /\ UNCHANGED <<now, users, movies, req, hpc, okCh, errCh, tch, tsel, hctx, hl, resp, tstart>>

\* what movieCollection.Find returns at each read call site
QueryResult(r) ==
    CASE req[r].kind = "GetMovies" -> FindAll(movies)
      [] req[r].kind = "GetMovie" -> FindByImdb(movies, wl[r].id)
      [] req[r].kind = "GetTopRatedMovies" -> FindTopRated(movies)
      [] req[r].kind = "GetMoviesByGenre" -> FindByGenre(movies, req[r].genre)
      [] req[r].kind = "GetRecommendedMovies" -> FindRecommended(movies, hl[r].genreNames)

\* cursor, err := movieCollection.Find(ctx, filter, opts)
WorkerFind(r) ==
    /\ wpc[r] = "find"
    /\ \E o \in StoreOutcomes(wctx[r], DeadlineOf(req[r].kind)) :
         IF o = "ok"
         THEN /\ wl' = [wl EXCEPT ![r].pending = QueryResult(r)]
              /\ wpc' = [wpc EXCEPT ![r] = "all"]
         ELSE /\ wl' = [wl EXCEPT ![r].pending = StoreErr(o)]
              /\ wpc' = [wpc EXCEPT ![r] = "sendErr"]
    /\ UNCHANGED <<now, users, movies, req, hpc, okCh, errCh, tch, tsel, hctx, wctx, hl, resp, tstart>>

\* a cursor read that removes from the collection the documents it returns
WorkerAllConsuming(r) ==
    /\ wpc[r] = "all"
    /\ \E o \in StoreOutcomes(wctx[r], DeadlineOf(req[r].kind)) :
         IF o = "ok"
         THEN /\ wpc' = [wpc EXCEPT ![r] = "sendOk"]
              /\ movies' = SelectSeq(movies, LAMBDA m :
                                \A k \in 1..Len(wl[r].pending) : wl[r].pending[k] # m)
              /\ UNCHANGED wl
         ELSE /\ wl' = [wl EXCEPT ![r].pending = StoreErr(o)]
              /\ wpc' = [wpc EXCEPT ![r] = "sendErr"]
              /\ UNCHANGED movies
    /\ UNCHANGED <<now, users, req, hpc, okCh, errCh, tch, tsel, hctx, wctx, hl, resp, tstart>>

\* err = cursor.All(ctx, &movies)
WorkerAll(r) ==
    /\ wpc[r] = "all"
    /\ \E o \in StoreOutcomes(wctx[r], DeadlineOf(req[r].kind)) :
         IF o = "ok"
         THEN /\ wpc' = [wpc EXCEPT ![r] = "sendOk"]
              /\ UNCHANGED wl
         ELSE /\ wl' = [wl EXCEPT ![r].pending = StoreErr(o)]
              /\ wpc' = [wpc EXCEPT ![r] = "sendErr"]
    /\ UNCHANGED <<now, users, movies, req, hpc, okCh, errCh, tch, tsel, hctx, wctx, hl, resp, tstart>>

\* MakeMovies: movieCollection.InsertOne(ctx, movie)
WorkerInsertMovie(r) ==
    /\ wpc[r] = "insert"
    /\ req[r].kind = "MakeMovies"
    /\ \E o \in StoreOutcomes(wctx[r], DeadlineOf(req[r].kind)) :
         IF o = "ok"
         THEN /\ movies' = Append(movies, req[r].movie)
              /\ wl' = [wl EXCEPT ![r].pending = TRUE, ![r].late = (resp[r] # <<>>)]
              /\ wpc' = [wpc EXCEPT ![r] = "sendOk"]
         ELSE /\ wl' = [wl EXCEPT ![r].pending = StoreErr(o)]
              /\ wpc' = [wpc EXCEPT ![r] = "sendErr"]
              /\ UNCHANGED movies
    /\ UNCHANGED <<now, users, req, hpc, okCh, errCh, tch, tsel, hctx, wctx, hl, resp, tstart>>

\* RegisterUser's worker: CountDocuments, the duplicate check, the fields the
\* worker assigns, validate.Struct(user)
WorkerCount(r) ==
    /\ wpc[r] = "count"
    /\ \E o \in StoreOutcomes(wctx[r], DeadlineOf(req[r].kind)) :
         IF o # "ok"
         THEN /\ wl' = [wl EXCEPT ![r].pending = StoreErr(o)]
              /\ wpc' = [wpc EXCEPT ![r] = "sendErr"]
         ELSE LET n == CountByEmail(users, wl[r].user.email) IN
              IF DuplicateFound(n)
              THEN /\ wl' = [wl EXCEPT ![r].count = n, ![r].pending = DuplicateEmailMsg]
                   /\ wpc' = [wpc EXCEPT ![r] = "sendErr"]
              ELSE IF ~req[r].valid
              THEN /\ wl' = [wl EXCEPT ![r].count = n,
                                       ![r].user.user_id = NewObjectID(r),
                                       ![r].user.password = HashOf(req[r].password),
                                       ![r].pending = "validation error"]
                   /\ wpc' = [wpc EXCEPT ![r] = "sendErr"]
              ELSE /\ wl' = [wl EXCEPT ![r].count = n,
                                       ![r].user.user_id = NewObjectID(r),
                                       ![r].user.password = HashOf(req[r].password)]
                   /\ wpc' = [wpc EXCEPT ![r] = "insert"]
    /\ UNCHANGED <<now, users, movies, req, hpc, okCh, errCh, tch, tsel, hctx, wctx, hl, resp, tstart>>

\* a worker that reports success whatever InsertOne returned
WorkerInsertUserIgnoresError(r) ==
    /\ wpc[r] = "insert"
    /\ req[r].kind = "RegisterUser"
    /\ \E o \in StoreOutcomes(wctx[r], DeadlineOf(req[r].kind)) :
         /\ users' = IF o = "ok" THEN Append(users, wl[r].user) ELSE users
         /\ wl' = [wl EXCEPT ![r].pending = TRUE, ![r].late = (resp[r] # <<>>)]
         /\ wpc' = [wpc EXCEPT ![r] = "sendOk"]
    /\ UNCHANGED <<now, movies, req, hpc, okCh, errCh, tch, tsel, hctx, wctx, hl, resp, tstart>>

\* RegisterUser's worker: userCollection.InsertOne(ctx, user)
WorkerInsertUser(r) ==
    /\ wpc[r] = "insert"
    /\ req[r].kind = "RegisterUser"
    /\ \E o \in StoreOutcomes(wctx[r], DeadlineOf(req[r].kind)) :
         IF o = "ok"
         THEN /\ users' = Append(users, wl[r].user)
              /\ wl' = [wl EXCEPT ![r].pending = TRUE, ![r].late = (resp[r] # <<>>)]
              /\ wpc' = [wpc EXCEPT ![r] = "sendOk"]
         ELSE /\ wl' = [wl EXCEPT ![r].pending = StoreErr(o)]
              /\ wpc' = [wpc EXCEPT ![r] = "sendErr"]
              /\ UNCHANGED users
    /\ UNCHANGED <<now, movies, req, hpc, okCh, errCh, tch, tsel, hctx, wctx, hl, resp, tstart>>

UnknownEmailMsg == "Invalid credentials"
WrongPasswordMsg == "Wrong Password"

\* utils.GenerateAccessToken / GenerateRefreshToken for the login of request r
AccessToken(uid, r) == <<"access", uid, r>>
RefreshToken(uid, r) == <<"refresh", uid, r>>

\* Login's worker: FindOne + Decode, the password check, the two tokens.
\* A lookup error other than ErrNoDocuments falls through with the zero user.
WorkerFindOne(r) ==
    /\ wpc[r] = "findone"
    /\ \E o \in StoreOutcomes(wctx[r], DeadlineOf(req[r].kind)) :
         LET i == FirstIndex(users, LAMBDA u : u.email = req[r].email)
             found == IF o = "ok" /\ i > 0 THEN users[i] ELSE ZeroUser
         IN IF o = "ok" /\ i = 0
            THEN /\ wl' = [wl EXCEPT ![r].lookup = "nodoc", ![r].pending = UnknownEmailMsg]
                 /\ wpc' = [wpc EXCEPT ![r] = "sendErr"]
            ELSE IF ~PasswordMatches(found.password, req[r].password)
            THEN /\ wl' = [wl EXCEPT ![r].lookup = IF o = "ok" THEN "found" ELSE "error",
                                     ![r].user = found,
                                     ![r].pending = WrongPasswordMsg]
                 /\ wpc' = [wpc EXCEPT ![r] = "sendErr"]
            ELSE \E sign \in {"ok", "fail"} :
                   IF sign = "fail"
                   THEN /\ wl' = [wl EXCEPT ![r].lookup = "found", ![r].user = found,
                                            ![r].pending = "signing error"]
                        /\ wpc' = [wpc EXCEPT ![r] = "sendErr"]
                   ELSE /\ wl' = [wl EXCEPT ![r].lookup = "found", ![r].user = found,
                                   ![r].pending =
                                      [user_id |-> found.user_id, email |-> found.email,
                                       genres |-> found.genres,
                                       token |-> AccessToken(found.user_id, r),
                                       refresh_token |-> RefreshToken(found.user_id, r)]]
                        /\ wpc' = [wpc EXCEPT ![r] = "update"]
    /\ UNCHANGED <<now, users, movies, req, hpc, okCh, errCh, tch, tsel, hctx, wctx, hl, resp, tstart>>

\* an update that persists the access token only
TokenWriteAccessOnly(u, token, refreshToken) == [u EXCEPT !.token = token]

\* UpdateAllTokens: one update that sets both tokens of the user's record
TokenWrite(u, token, refreshToken) ==
    [u EXCEPT !.token = token, !.refresh_token = refreshToken]

\* Login's worker: utils.UpdateAllTokens(user.UserID, token, refreshToken)
WorkerUpdateTokens(r) ==
    /\ wpc[r] = "update"
    /\ \E o \in {"ok", "fail"} :
         LET i == FirstIndex(users, LAMBDA u : u.user_id = wl[r].user.user_id) IN
         IF o = "ok"
         THEN /\ users' = IF i = 0 THEN users
                          ELSE [users EXCEPT ![i] = TokenWrite(@, wl[r].pending.token,
                                                               wl[r].pending.refresh_token)]
              /\ wl' = [wl EXCEPT ![r].late = (resp[r] # <<>>)]
              /\ wpc' = [wpc EXCEPT ![r] = "sendOk"]
         ELSE /\ wl' = [wl EXCEPT ![r].pending = "token update error"]
              /\ wpc' = [wpc EXCEPT ![r] = "sendErr"]
              /\ UNCHANGED users
    /\ UNCHANGED <<now, movies, req, hpc, okCh, errCh, tch, tsel, hctx, wctx, hl, resp, tstart>>

\* a send on a channel of capacity ChanCap proceeds only while there is room
CanSend(ch) == Len(ch) < ChanCap

\* moviesChan <- movies, userMade <- true, userToken <- response, then return
WorkerSendOk(r) ==
    /\ wpc[r] = "sendOk"
    /\ CanSend(okCh[r])
    /\ okCh' = [okCh EXCEPT ![r] = Append(@, wl[r].pending)]
    /\ wpc' = [wpc EXCEPT ![r] = "done"]
    /\ UNCHANGED <<now, users, movies, req, hpc, errCh, tch, tsel, hctx, wctx, hl, wl, resp, tstart>>

\* an error send without the return after it: the worker goes on to the
\* success send
WorkerSendErrFallsThrough(r) ==
    /\ wpc[r] = "sendErr"
    /\ CanSend(errCh[r])
    /\ errCh' = [errCh EXCEPT ![r] = Append(@, wl[r].pending)]
    /\ wpc' = [wpc EXCEPT ![r] = "sendOk"]
    /\ UNCHANGED <<now, users, movies, req, hpc, okCh, tch, tsel, hctx, wctx, hl, wl, resp, tstart>>

\* errorChan <- err, then return
WorkerSendErr(r) ==
    /\ wpc[r] = "sendErr"
    /\ CanSend(errCh[r])
    /\ errCh' = [errCh EXCEPT ![r] = Append(@, wl[r].pending)]
    /\ wpc' = [wpc EXCEPT ![r] = "done"]
    /\ UNCHANGED <<now, users, movies, req, hpc, okCh, tch, tsel, hctx, wctx, hl, wl, resp, tstart>>

(***************************************************************************)
(* The select statement: one case per action.                              *)
(***************************************************************************)
\* a select wrapped in a loop: the handler goes back to waiting
AfterCaseLoops == "select"

\* the handler's position after the case it took: the select is its last statement
AfterCase == "done"

\* c.JSON in a select case
ReplyCase(r, outcome, code, body) ==
    /\ resp' = [resp EXCEPT ![r] = Append(@, [code |-> code, body |-> body, at |-> now])]
    /\ hpc' = [hpc EXCEPT ![r] = AfterCase]
    /\ hl' = [hl EXCEPT ![r].outcome = outcome]
    /\ tch' = [tch EXCEPT ![r] = IF AfterCase = "done" THEN "off" ELSE @]

\* the body of the success case at each call site
SuccessBody(r, v) ==
    CASE req[r].kind = "GetTopRatedMovies" ->
            [top_rated_movies |-> v, total_found |-> Len(v), minimum_rating |-> TopRatedMin]
      [] req[r].kind = "GetMoviesByGenre" ->
            [movies |-> v, genre |-> req[r].genre, total_found |-> Len(v)]
      [] req[r].kind = "GetRecommendedMovies" ->
            [recommended_movies |-> v, based_on_genres |-> hl[r].genreNames,
             total_found |-> Len(v)]
      [] req[r].kind = "MakeMovies" -> "Movie created successfully"
      [] req[r].kind = "RegisterUser" ->
            [id |-> wl[r].user.user_id, email |-> wl[r].user.email,
             token |-> AccessToken(wl[r].user.user_id, r)]
      [] OTHER -> v

SuccessCode(kind) == IF kind \in {"MakeMovies", "RegisterUser"} THEN 201 ELSE 200

\* case movies := <-moviesChan / <-userMade / response := <-userToken / <-movieMade
HandleSuccess(r) ==
    /\ hpc[r] = "select"
    /\ okCh[r] # <<>>
    /\ okCh' = [okCh EXCEPT ![r] = Tail(@)]
    /\ \E sign \in {"ok", "fail"} :
         IF req[r].kind = "RegisterUser" /\ sign = "fail"
         THEN ReplyCase(r, "success", 500, "Failed to generate token")
         ELSE ReplyCase(r, "success", SuccessCode(req[r].kind), SuccessBody(r, Head(okCh[r])))
    /\ UNCHANGED <<now, users, movies, req, wpc, errCh, tsel, hctx, wctx, wl, tstart>>

\* the status of the error case at each call site
ErrorCode(kind, msg) ==
    CASE kind = "RegisterUser" -> IF msg = DuplicateEmailMsg THEN 409 ELSE 500
      [] kind = "Login" -> 401
      [] OTHER -> 500

\* case err := <-errorChan
HandleError(r) ==
    /\ hpc[r] = "select"
    /\ errCh[r] # <<>>
    /\ errCh' = [errCh EXCEPT ![r] = Tail(@)]
    /\ ReplyCase(r, "error", ErrorCode(req[r].kind, Head(errCh[r])), Head(errCh[r]))
    /\ UNCHANGED <<now, users, movies, req, wpc, okCh, tsel, hctx, wctx, wl, tstart>>

TimeoutBody(kind) == IF kind = "Login" THEN "timeout" ELSE "request timeout"

\* a timeout case that also cancels the worker's context, ending the goroutine
HandleTimeoutCancelling(r) ==
    /\ hpc[r] = "select"
    /\ tch[r] = "fired"
    /\ ReplyCase(r, "timeout", 408, TimeoutBody(req[r].kind))
    /\ wpc' = [wpc EXCEPT ![r] = "done"]
    /\ UNCHANGED <<now, users, movies, req, okCh, errCh, tsel, hctx, wctx, wl, tstart>>

\* case <-time.After(10 * time.Second)
HandleTimeout(r) ==
    /\ hpc[r] = "select"
    /\ tch[r] = "fired"
    /\ ReplyCase(r, "timeout", 408, TimeoutBody(req[r].kind))
    /\ UNCHANGED <<now, users, movies, req, wpc, okCh, errCh, tsel, hctx, wctx, wl, tstart>>

(***************************************************************************)
(* Time.                                                                   *)
(***************************************************************************)
\* a timer of no duration
TimerDueAtOnce(r) == now - tsel[r] >= 0

\* the runtime delivers on time.After's channel once the duration has elapsed
TimerDue(r) == now - tsel[r] >= ExternalWait

TimerFire(r) ==
    /\ tch[r] = "armed"
    /\ TimerDue(r)
    /\ tch' = [tch EXCEPT ![r] = "fired"]
    /\ UNCHANGED <<now, users, movies, req, hpc, wpc, okCh, errCh, tsel, hctx, wctx, hl, wl,
                   resp, tstart>>

\* the clock is abstracted: the timer may deliver at any moment after it was armed
TimerFireAny(r) ==
    /\ tch[r] = "armed"
    /\ tch' = [tch EXCEPT ![r] = "fired"]
    /\ UNCHANGED <<now, users, movies, req, hpc, wpc, okCh, errCh, tsel, hctx, wctx, hl, wl,
                   resp, tstart>>

InWorkerCall(r) == wpc[r] \in {"find", "all", "insert", "count", "findone", "update"}
InHandlerCall(r) == hpc[r] \in {"update", "lookup"}

\* something of request r is blocked and lets time pass
Waiting(r) == hpc[r] = "select" \/ InHandlerCall(r) \/ InWorkerCall(r)

\* something of request r can run now: time does not pass it by
Urgent(r) ==
    \/ hpc[r] = "recv"
    \/ wpc[r] \in {"spawned", "sendOk", "sendErr"}
    \/ hpc[r] = "select" /\ (okCh[r] # <<>> \/ errCh[r] # <<>> \/ tch[r] = "fired")
    \/ tch[r] = "armed" /\ TimerDue(r)
    \/ wpc[r] \in {"find", "all", "insert", "count", "findone"}
         /\ now - wctx[r] >= DeadlineOf(req[r].kind)
    \/ InHandlerCall(r) /\ now - hctx[r] >= ShortDeadline

Tick ==
    /\ \E r \in Req : Waiting(r)
    /\ \A r \in Req : ~Urgent(r)
    /\ now + TickStep <= MaxTime
    /\ now' = now + TickStep
    /\ UNCHANGED <<users, movies, req, hpc, wpc, okCh, errCh, tch, tsel, hctx, wctx, hl, wl,
                   resp, tstart>>

(***************************************************************************)
(* Specifications.                                                         *)
(***************************************************************************)
HandlerStep(r) ==
    \/ BeginRead(r) \/ BeginByGenre(r) \/ BeginMakeMovies(r) \/ BeginRegister(r)
    \/ BeginLogin(r) \/ BeginAdminReview(r) \/ BeginRecommended(r)
    \/ HandlerUpdate(r) \/ HandlerLookup(r)
    \/ HandleSuccess(r) \/ HandleError(r) \/ HandleTimeout(r)

WorkerStep(r) ==
    \/ WorkerStart(r) \/ WorkerFind(r) \/ WorkerAll(r) \/ WorkerInsertMovie(r)
    \/ WorkerCount(r) \/ WorkerInsertUser(r) \/ WorkerFindOne(r) \/ WorkerUpdateTokens(r)
    \/ WorkerSendOk(r) \/ WorkerSendErr(r)

\* one request, every handler, with the clock
Next ==
    \/ Start(1, Kinds)
    \/ HandlerStep(1)
    \/ WorkerStep(1)
    \/ TimerFire(1)
    \/ Tick

Spec == Init /\ [][Next]_vars

\* the user handlers only, NReq concurrent requests, the clock abstracted
UserKinds == {"RegisterUser", "Login"}

NextUsers ==
    \E r \in Req :
        \/ Start(r, UserKinds)
        \/ BeginRegister(r) \/ BeginLogin(r)
        \/ WorkerStart(r) \/ WorkerCount(r) \/ WorkerInsertUser(r)
        \/ WorkerFindOne(r) \/ WorkerUpdateTokens(r)
        \/ WorkerSendOk(r) \/ WorkerSendErr(r)
        \/ HandleSuccess(r) \/ HandleError(r) \/ HandleTimeout(r)
        \/ TimerFireAny(r)

SpecUsers == Init /\ [][NextUsers]_vars

\* creating and reading movies, NReq concurrent requests, the clock abstracted
MovieKinds == {"MakeMovies", "GetMovie"}

InitCatalog == Init /\ users = <<>> /\ movies \in {<<>>, <<MovieB, MovieA>>}

\* the request is over (handler returned, goroutine ended): the server takes
\* the next request in its place, with fresh channels and locals
Recycle(r) ==
    /\ hpc[r] = "done"
    /\ wpc[r] \in {"none", "done"}
    /\ Len(movies) < MaxMovies
    /\ req' = [req EXCEPT ![r] = NoReq]
    /\ hpc' = [hpc EXCEPT ![r] = "idle"]
    /\ wpc' = [wpc EXCEPT ![r] = "none"]
    /\ okCh' = [okCh EXCEPT ![r] = <<>>]
    /\ errCh' = [errCh EXCEPT ![r] = <<>>]
    /\ tch' = [tch EXCEPT ![r] = "off"]
    /\ tsel' = [tsel EXCEPT ![r] = 0 - 1]
    /\ hctx' = [hctx EXCEPT ![r] = 0 - 1]
    /\ wctx' = [wctx EXCEPT ![r] = 0 - 1]
    /\ hl' = [hl EXCEPT ![r] = NoHl]
    /\ wl' = [wl EXCEPT ![r] = NoWl]
    /\ resp' = [resp EXCEPT ![r] = <<>>]
    /\ tstart' = [tstart EXCEPT ![r] = 0 - 1]
    /\ UNCHANGED <<now, users, movies>>

NextMovies ==
    \E r \in Req :
        \/ Start(r, MovieKinds)
        \/ Recycle(r)
        \/ BeginMakeMovies(r) \/ BeginRead(r)
        \/ WorkerStart(r) \/ WorkerInsertMovie(r) \/ WorkerFind(r) \/ WorkerAll(r)
        \/ WorkerSendOk(r) \/ WorkerSendErr(r)
        \/ HandleSuccess(r) \/ HandleError(r) \/ HandleTimeout(r)
        \/ TimerFireAny(r)

SpecMovies == InitCatalog /\ [][NextMovies]_vars

(***************************************************************************)
(* Properties.                                                             *)
(***************************************************************************)
Raced(r) == req[r].kind \in RacingKinds /\ tsel[r] >= 0
Code(r) == resp[r][1].code
Body(r) == resp[r][1].body

\* C1: a request that spawned a worker resolves to exactly one of success,
\* error and timeout and writes exactly one response, whatever the order of
\* the worker's send and the timer; a later outcome adds no response.
C1_ExactlyOneResponse ==
    \A r \in Req :
        /\ Len(resp[r]) <= 1
        /\ Raced(r) =>
             /\ hpc[r] \in {"select", "done"}
             /\ hpc[r] = "select" => resp[r] = <<>> /\ hl[r].outcome = "none"
             /\ hpc[r] = "done" =>
                  /\ Len(resp[r]) = 1
                  /\ hl[r].outcome \in {"success", "error", "timeout"}
                  /\ hl[r].outcome = "timeout" <=> Code(r) = 408
                  /\ hl[r].outcome = "success" => Code(r) \in {200, 201, 500}
                  /\ hl[r].outcome = "error" => Code(r) \in {500, 409, 401}

\* C1 witness: the handler answered 408 and the worker's result arrived afterwards
C1_LateOutcome ==
    \E r \in Req :
        /\ Raced(r) /\ hpc[r] = "done" /\ Code(r) = 408
        /\ wpc[r] = "done" /\ (okCh[r] # <<>> \/ errCh[r] # <<>>)
        /\ Len(resp[r]) = 1

\* C2: no two documents of the User collection have the same email, after
\* any sequence and interleaving of RegisterUser requests.
C2_UniqueEmails ==
    \A i, j \in 1..Len(users) : i # j => users[i].email # users[j].email

\* C3: a RegisterUser worker whose count query saw an existing user with the
\* submitted email inserts nothing, and its request resolves to 409 (or to
\* 408 when the timer wins), never to 201 or 500.
C3_DuplicateRejected ==
    \A r \in Req :
        (req[r].kind = "RegisterUser" /\ wl[r].count > 0) =>
            /\ wpc[r] \in {"sendErr", "done"}
            /\ wl[r].user.user_id = 0
            /\ \A i \in 1..Len(users) : users[i].user_id # NewObjectID(r)
            /\ okCh[r] = <<>>
            /\ resp[r] # <<>> => Code(r) \in {409, 408}

\* C3 witness: a registration answered 409 after its count query saw a user
C3_Conflict ==
    \E r \in Req :
        /\ req[r].kind = "RegisterUser" /\ wl[r].count > 0
        /\ resp[r] # <<>> /\ Code(r) = 409 /\ Body(r) = DuplicateEmailMsg

\* C4: the Login response for an existing email with a wrong password is
\* identical (status and text) to the response for a non-existent email.
C4_SameLoginFailure ==
    \A r1, r2 \in Req :
        ( /\ req[r1].kind = "Login" /\ req[r2].kind = "Login"
          /\ hl[r1].outcome = "error" /\ hl[r2].outcome = "error"
          /\ wl[r1].lookup = "found"
          /\ ~PasswordMatches(wl[r1].user.password, req[r1].password)
          /\ wl[r2].lookup = "nodoc" )
        => (Code(r1) = Code(r2) /\ Body(r1) = Body(r2))

\* C5: the worker goroutine is never blocked: at every position it has a step
\* to take, and its send finds room in the channel even when the handler has
\* already answered by timeout and nobody will receive.
C5_WorkerNeverBlocks ==
    \A r \in Req :
        /\ wpc[r] \notin {"none", "done"} => ENABLED WorkerStep(r)
        /\ wpc[r] = "sendOk" => Len(okCh[r]) < ChanCap
        /\ wpc[r] = "sendErr" => Len(errCh[r]) < ChanCap

\* C5 witness: the handler timed out, the worker sent afterwards and returned
C5_SentAfterTimeout ==
    \E r \in Req :
        /\ hl[r].outcome = "timeout" /\ hpc[r] = "done"
        /\ wpc[r] = "done"
        /\ Len(okCh[r]) + Len(errCh[r]) = 1

\* C6: a handler whose worker has not sent resolves to timeout, no earlier
\* than ExternalWait after the select began and before a further clock step
\* has gone by.
C6_TimeoutAtDeadline ==
    \A r \in Req :
        /\ (resp[r] # <<>> /\ Code(r) = 408) => resp[r][1].at - tsel[r] >= ExternalWait
        /\ hpc[r] = "select" => now - tsel[r] < ExternalWait + TickStep
        /\ (Raced(r) /\ hpc[r] = "done" /\ wpc[r] # "done") =>
               (hl[r].outcome = "timeout" /\ Code(r) = 408)

\* C6 witness: a 408 written while the worker was still in its store call
C6_TimedOutWaiting ==
    \E r \in Req :
        /\ hpc[r] = "done" /\ Code(r) = 408
        /\ InWorkerCall(r)
        /\ resp[r][1].at - tsel[r] >= ExternalWait

\* C7: every store failure or stall reaches the request through the error
\* channel of a worker, and every request is answered no later than
\* ExternalWait after it arrived.
C7_FailuresThroughErrorChannel ==
    \A r \in Req :
        /\ hl[r].err \notin {"", "no documents"} => hl[r].outcome = "error"
        /\ hpc[r] \notin {"idle", "done"} => now - tstart[r] <= ExternalWait
        /\ resp[r] # <<>> => resp[r][1].at - tstart[r] <= ExternalWait

\* C8: a stalled store call of a racing handler always ends in 408: no
\* response reports the worker's own context deadline.
C8_StallAlwaysTimesOut ==
    \A r \in Req :
        (Raced(r) /\ hl[r].outcome = "error") => Body(r) # StoreErr("deadline")

\* C9: the timeout case leaves the worker as it is (position, context,
\* locals, channels); the worker then still has a step to take until it
\* returns; and no later step changes the response already written.
C9_WorkerOutlivesTimeout ==
    /\ [][\A r \in Req :
            /\ (hpc[r] = "select" /\ hpc'[r] = "done" /\ hl'[r].outcome = "timeout") =>
                  /\ wpc'[r] = wpc[r] /\ wctx'[r] = wctx[r] /\ wl'[r] = wl[r]
                  /\ okCh'[r] = okCh[r] /\ errCh'[r] = errCh[r]
                  /\ users' = users /\ movies' = movies
            /\ resp[r] # <<>> => resp'[r] = resp[r]]_vars
    /\ [](\A r \in Req :
            (hl[r].outcome = "timeout" /\ wpc[r] # "done") => ENABLED WorkerStep(r))

\* C9 witness: a registration answered 408 whose insert took effect
\* afterwards and whose success value stays unreceived in the channel
C9_WriteAfterTimeout ==
    \E r \in Req :
        /\ req[r].kind = "RegisterUser"
        /\ hpc[r] = "done" /\ Code(r) = 408 /\ Len(resp[r]) = 1
        /\ wl[r].late
        /\ \E i \in 1..Len(users) : users[i].user_id = NewObjectID(r)
        /\ wpc[r] = "done" /\ okCh[r] = <<TRUE>>

\* C10: AdminReviewUpdate accepts a rating exactly when it is in 1..10,
\* rejects any other as a validation error, and names an accepted rating
\* excellent (>= 9), good (7-8), average (5-6), poor (3-4) or terrible (1-2).
C10_RatingTable ==
    \A r \in Req :
        ( /\ req[r].kind = "AdminReviewUpdate" /\ hpc[r] \notin {"idle", "recv"}
          /\ req[r].imdb # "" /\ req[r].bindOk /\ req[r].review # "" ) =>
        LET n == req[r].rating
            rejected == resp[r] # <<>> /\ Code(r) = 400
            name == IF n \in {9, 10} THEN "excellent"
                    ELSE IF n \in {7, 8} THEN "good"
                    ELSE IF n \in {5, 6} THEN "average"
                    ELSE IF n \in {3, 4} THEN "poor"
                    ELSE "terrible"
        IN /\ rejected <=> n \notin 1..10
           /\ rejected => Body(r) = "Validation failed"
           /\ ~rejected => hl[r].rankingName = name
           /\ (resp[r] # <<>> /\ Code(r) = 200) =>
                 /\ Body(r).ranking_name = name
                 /\ \E i \in 1..Len(movies) :
                       /\ movies[i].imdb_id = req[r].imdb
                       /\ movies[i].ranking_value = n
                       /\ movies[i].ranking_name = name

\* C10 witness: a review with rating 9 was stored as "excellent"
C10_ExcellentStored ==
    \E r \in Req :
        /\ req[r].kind = "AdminReviewUpdate" /\ req[r].rating = 9
        /\ resp[r] # <<>> /\ Code(r) = 200 /\ Body(r).ranking_name = "excellent"

\* C11: AdminReviewUpdate with a valid payload whose id matches no movie
\* answers 404 and leaves the Movie collection as it was; when a movie
\* matches, the first match gets the submitted review, the submitted rating
\* and the name derived from it, and every other movie and field stays; a
\* request rejected before the update never issues a store call.
C11_ReviewFrame ==
    /\ [][\A r \in Req :
            (req[r].kind = "AdminReviewUpdate" /\ hpc[r] # hpc'[r]) =>
              LET matches == {i \in 1..Len(movies) : movies[i].imdb_id = req[r].imdb}
                  answer == resp'[r][1]
              IN /\ hpc[r] = "recv" => movies' = movies
                 /\ (hpc[r] = "update" /\ hl'[r].err = "") =>
                       IF matches = {}
                       THEN answer.code = 404 /\ movies' = movies
                       ELSE LET i == CHOOSE k \in matches : \A j \in matches : k <= j IN
                            /\ answer.code = 200
                            /\ Len(movies') = Len(movies)
                            /\ \A j \in 1..Len(movies) : j # i => movies'[j] = movies[j]
                            /\ movies'[i] = [movies[i] EXCEPT
                                                !.admin_review = req[r].review,
                                                !.ranking_value = req[r].rating,
                                                !.ranking_name = getRatingName(req[r].rating)]
                 /\ (hpc[r] = "update" /\ hl'[r].err # "") =>
                       answer.code = 500 /\ movies' = movies]_vars
    /\ [](\A r \in Req :
            (req[r].kind = "AdminReviewUpdate" /\ resp[r] # <<>> /\ Code(r) = 400) =>
                hctx[r] = 0 - 1)

\* C11 witness: a review of tt1 with rating 3 changed MovieA's three fields
\* and nothing else
C11_ReviewApplied ==
    \E r \in Req :
        /\ req[r].kind = "AdminReviewUpdate" /\ req[r].rating = 3
        /\ resp[r] # <<>> /\ Code(r) = 200
        /\ movies = <<MovieB, [MovieA EXCEPT !.admin_review = "rv",
                                              !.ranking_value = 3,
                                              !.ranking_name = "poor"]>>

\* C12: a successful GetTopRatedMovies response holds only movies of ranking
\* value >= 7, in non-increasing order of ranking value, at most 20 of them,
\* and its total_found is the number of movies returned.
C12_TopRatedResponse ==
    \A r \in Req :
        (req[r].kind = "GetTopRatedMovies" /\ hl[r].outcome = "success") =>
            LET list == Body(r).top_rated_movies IN
            /\ Code(r) = 200
            /\ \A i \in 1..Len(list) : list[i].ranking_value >= 7
            /\ \A i \in 1..(Len(list) - 1) :
                   list[i].ranking_value >= list[i + 1].ranking_value
            /\ Len(list) <= 20
            /\ Body(r).total_found = Len(list)

\* C12 witness: the large catalog holds more than 20 qualifying movies and
\* the response returned the 20 best of them
C12_TopTwenty ==
    \E r \in Req :
        /\ req[r].kind = "GetTopRatedMovies" /\ hl[r].outcome = "success"
        /\ Len(SelectSeq(movies, LAMBDA m : m.ranking_value >= 7)) > 20
        /\ Len(Body(r).top_rated_movies) = 20
        /\ Body(r).top_rated_movies[1].ranking_value = 10
        /\ Body(r).top_rated_movies[20].ranking_value = 7

\* C13: GetRecommendedMovies for an existing user without favourite genres
\* answers 200 with the empty-state body (an empty movie list), and does so
\* without a worker, a select or a query on the Movie collection.
C13_EmptyFavourites ==
    \A r \in Req :
        ( /\ req[r].kind = "GetRecommendedMovies"
          /\ hpc[r] \notin {"idle", "recv", "lookup"}
          /\ hl[r].err = ""
          /\ \E i \in 1..Len(users) :
                 users[i].user_id = req[r].userId /\ Len(users[i].genres) = 0 )
        => /\ hpc[r] = "done"
           /\ Len(resp[r]) = 1
           /\ Code(r) = 200
           /\ Body(r).movies = <<>>
           /\ Body(r).message = "No favorite genres set for user"
           /\ wpc[r] = "none" /\ wctx[r] = 0 - 1 /\ tsel[r] = 0 - 1
           /\ okCh[r] = <<>> /\ errCh[r] = <<>>

\* C13 witness: Bob, who has no favourite genres, got the empty-state reply
C13_BobEmptyState ==
    \E r \in Req :
        /\ req[r].kind = "GetRecommendedMovies" /\ req[r].userId = Bob.user_id
        /\ hpc[r] = "done" /\ Code(r) = 200 /\ Body(r) = EmptyStateBody
        /\ wpc[r] = "none"

\* C14: for a user with favourite genres, a successful GetRecommendedMovies
\* response holds only movies with a genre name among the favourites and a
\* ranking value >= 6, in non-increasing order of ranking value, at most 10
\* of them; for a user id that matches no user the answer is 404.
C14_RecommendedResponse ==
    \A r \in Req :
        req[r].kind = "GetRecommendedMovies" =>
            /\ hl[r].outcome = "success" =>
                  \E u \in 1..Len(users) :
                    LET list == Body(r).recommended_movies
                        favourites == {users[u].genres[j] : j \in 1..Len(users[u].genres)}
                    IN /\ users[u].user_id = req[r].userId
                       /\ favourites # {}
                       /\ Code(r) = 200
                       /\ \A i \in 1..Len(list) :
                              /\ \E g \in 1..Len(list[i].genres) : list[i].genres[g] \in favourites
                              /\ list[i].ranking_value >= 6
                       /\ \A i \in 1..(Len(list) - 1) :
                              list[i].ranking_value >= list[i + 1].ranking_value
                       /\ Len(list) <= 10
            /\ ( /\ hpc[r] \notin {"idle", "recv", "lookup"}
                 /\ req[r].userId # 0
                 /\ \A u \in 1..Len(users) : users[u].user_id # req[r].userId )
               => (hpc[r] = "done" /\ Code(r) = 404 /\ wpc[r] = "none")

\* C14 witness: Alice, whose favourite is Action, got the 10 best of the more
\* than 10 Action movies of ranking value >= 6 in the large catalog, while a
\* Drama of ranking value 10 stayed out
C14_AliceTopTen ==
    \E r \in Req :
        /\ req[r].kind = "GetRecommendedMovies" /\ req[r].userId = Alice.user_id
        /\ hl[r].outcome = "success"
        /\ Len(SelectSeq(movies, LAMBDA m : m.ranking_value >= 6)) > 10
        /\ Len(Body(r).recommended_movies) = 10
        /\ Body(r).recommended_movies[1].ranking_value = 9
        /\ \E i \in 1..Len(movies) :
              movies[i].ranking_value = 10 /\ movies[i].genres = <<GDrama>>

\* C15: once MakeMovies has answered 201 for a payload, every later query of
\* GetMovie for that payload's imdb_id returns a list that holds the movie
\* with exactly the submitted field values, whatever other movies were
\* created in between; and a successful GetMovie answers with the list its
\* query returned for the id of its request.
C15_CreateThenGet ==
    /\ [][\A r, c \in Req :
            ( /\ req[r].kind = "GetMovie"
              /\ wpc[r] = "find" /\ wpc'[r] = "all"
              /\ req[c].kind = "MakeMovies"
              /\ resp[c] # <<>> /\ Code(c) = 201
              /\ req[c].movie.imdb_id = wl[r].id )
            => \E k \in 1..Len(wl'[r].pending) : wl'[r].pending[k] = req[c].movie]_vars
    /\ [](\A r \in Req :
            (req[r].kind = "GetMovie" /\ hl[r].outcome = "success") =>
                /\ Code(r) = 200
                /\ wl[r].id = req[r].imdb
                /\ Body(r) = wl[r].pending
                /\ \A k \in 1..Len(Body(r)) : Body(r)[k].imdb_id = req[r].imdb)

\* C15 witness: tt1 was created (201), another tt1 with other field values
\* was created after it, and GetMovie tt1 returned the first movie as submitted
C15_CreatedAndRead ==
    \E r, c \in Req :
        /\ req[c].kind = "MakeMovies" /\ resp[c] # <<>> /\ Code(c) = 201
        /\ req[c].movie.imdb_id = "tt1" /\ req[c].movie.genres = <<GAction>>
        /\ req[r].kind = "GetMovie" /\ req[r].imdb = "tt1"
        /\ hl[r].outcome = "success" /\ Code(r) = 200
        /\ Len(Body(r)) = 2
        /\ Body(r)[1] = req[c].movie
        /\ Body(r)[2].genres = <<GDrama>> /\ Body(r)[2].ranking_value = 9
        /\ movies = Body(r)

\* C16: a Login worker sends its success value only after its token pair
\* was written to the user's record; and in every state, whatever the
\* interleaving of logins, a user record holds either no token or the access
\* and the refresh token issued by one and the same login.
C16_OnePairPerUser ==
    /\ \A i \in 1..Len(users) :
          \/ users[i].token = NoToken /\ users[i].refresh_token = NoToken
          \/ \E r \in Req :
                /\ req[r].kind = "Login" /\ wpc[r] \in {"sendOk", "done"}
                /\ users[i].token = AccessToken(users[i].user_id, r)
                /\ users[i].refresh_token = RefreshToken(users[i].user_id, r)
    /\ \A r \in Req :
          (req[r].kind = "Login" /\ (wpc[r] = "sendOk" \/ okCh[r] # <<>>
                                      \/ hl[r].outcome = "success")) =>
              \E i \in 1..Len(users) :
                  /\ users[i].user_id = wl[r].pending.user_id
                  /\ users[i].email = req[r].email
                  /\ users[i].token # NoToken /\ users[i].refresh_token # NoToken
                  /\ wl[r].pending.token = AccessToken(users[i].user_id, r)
                  /\ wl[r].pending.refresh_token = RefreshToken(users[i].user_id, r)
                  /\ (\A q \in Req \ {r} :
                         ~(req[q].kind = "Login" /\ (wpc[q] = "sendOk" \/ okCh[q] # <<>>
                                                      \/ hl[q].outcome = "success")))
                        => /\ users[i].token = wl[r].pending.token
                           /\ users[i].refresh_token = wl[r].pending.refresh_token

\* C16 witness: two concurrent logins of Alice both answered 200; her record
\* holds the pair of the second while the first response carries its own
C16_SecondLoginOverwrote ==
    /\ req[1].kind = "Login" /\ req[2].kind = "Login"
    /\ hl[1].outcome = "success" /\ hl[2].outcome = "success"
    /\ Code(1) = 200 /\ Code(2) = 200
    /\ Body(1).token = AccessToken(Alice.user_id, 1)
    /\ \E i \in 1..Len(users) :
          /\ users[i].email = Alice.email
          /\ users[i].token = AccessToken(Alice.user_id, 2)
          /\ users[i].refresh_token = RefreshToken(Alice.user_id, 2)

\* C17: in every racing handler an error received from the error channel is
\* answered with a 5xx status unless it is a recognized user-facing condition
\* (duplicate email, invalid credentials, wrong password); token-signing and
\* token-persistence failures of Login are answered 5xx.
C17_ErrorsAreServerFailures ==
    \A r \in Req :
        (Raced(r) /\ hl[r].outcome = "error") =>
            \/ Body(r) \in {DuplicateEmailMsg, UnknownEmailMsg, WrongPasswordMsg}
            \/ Code(r) >= 500

\* C18: a request whose payload fails validation is answered before any
\* goroutine is spawned and before any store operation is issued.
C18_ValidationBeforeWork ==
    \A r \in Req :
        ( \/ req[r].kind = "RegisterUser" /\ req[r].bindOk /\ ~req[r].valid
          \/ req[r].kind = "MakeMovies" /\ req[r].bindOk /\ ~ValidMovie(req[r].movie)
          \/ req[r].kind = "AdminReviewUpdate" /\ req[r].bindOk
                /\ ~ValidReview(req[r].review, req[r].rating) )
        => (wpc[r] = "none" /\ wctx[r] = 0 - 1 /\ hctx[r] = 0 - 1 /\ wl[r].count < 0)

\* C19: every stored movie that has a ranking has a ranking value in 1..10
\* and the ranking name the threshold table gives for that value.
C19_StoredRankingsFollowTable ==
    \A i \in 1..Len(movies) :
        (movies[i].ranking_value # 0 \/ movies[i].ranking_name # "") =>
            /\ movies[i].ranking_value \in 1..10
            /\ movies[i].ranking_name =
                  (IF movies[i].ranking_value >= 9 THEN "excellent"
                   ELSE IF movies[i].ranking_value >= 7 THEN "good"
                   ELSE IF movies[i].ranking_value >= 5 THEN "average"
                   ELSE IF movies[i].ranking_value >= 3 THEN "poor"
                   ELSE "terrible")

\* C20: no two documents of the Movie collection have the same imdb_id,
\* after any sequence and interleaving of MakeMovies requests.
C20_UniqueImdbIds ==
    \A i, j \in 1..Len(movies) : i # j => movies[i].imdb_id # movies[j].imdb_id

\* a RegisterUser worker of request r has inserted its document
Inserted(r) == \E i \in 1..Len(users) : users[i].user_id = NewObjectID(r)

\* two registrations with the same email that both counted zero
CountRace(r, q) ==
    /\ r # q
    /\ req[r].kind = "RegisterUser" /\ req[q].kind = "RegisterUser"
    /\ req[r].bindOk /\ req[q].bindOk /\ req[r].email = req[q].email
    /\ wl[r].count = 0 /\ wl[q].count = 0

\* C21: a RegisterUser worker reaches its insert only after its count query
\* returned zero; and when two registrations with the same email have both
\* counted zero, neither worker is blocked and neither handler has written
\* more than one response, exactly one once it has returned.
C21_CountThenInsertNotAtomic ==
    \A r \in Req :
        /\ (req[r].kind = "RegisterUser" /\ (wpc[r] = "insert" \/ Inserted(r)))
              => wl[r].count = 0
        /\ \A q \in Req : CountRace(r, q) =>
              /\ wpc[r] \notin {"none", "done"} => ENABLED WorkerStep(r)
              /\ Len(resp[r]) <= 1
              /\ hpc[r] \in {"select", "done"}
              /\ hpc[r] = "done" =>
                    (Len(resp[r]) = 1 /\ hl[r].outcome \in {"success", "error", "timeout"})

\* C21 witness: both registrations counted zero, both inserted, both
\* answered 201, and the collection holds the email twice
C21_BothInserted ==
    /\ CountRace(1, 2)
    /\ Inserted(1) /\ Inserted(2)
    /\ wpc[1] = "done" /\ wpc[2] = "done"
    /\ hpc[1] = "done" /\ hpc[2] = "done"
    /\ Code(1) = 201 /\ Code(2) = 201
    /\ CountByEmail(users, req[1].email) = 2

\* the values request r's worker has sent so far: those still in the two
\* channels and the one the handler received
SentBy(r) ==
    Len(okCh[r]) + Len(errCh[r]) + (IF hl[r].outcome \in {"success", "error"} THEN 1 ELSE 0)

\* C22: the worker of a racing handler has sent nothing before it returns
\* and exactly one value, on one of its two channels, once it has returned;
\* the success channel and the error channel never both hold a value.
C22_ExactlyOneSend ==
    \A r \in Req :
        /\ ~(okCh[r] # <<>> /\ errCh[r] # <<>>)
        /\ Len(okCh[r]) + Len(errCh[r]) <= 1
        /\ wpc[r] = "done" => SentBy(r) = 1
        /\ wpc[r] # "done" => SentBy(r) = 0

\* C22 witness: a Login worker returned after its one send, on the error
\* channel, and the handler received it
C22_OneErrorSent ==
    \E r \in Req :
        /\ req[r].kind = "Login" /\ wpc[r] = "done"
        /\ hl[r].outcome = "error" /\ okCh[r] = <<>> /\ errCh[r] = <<>>
        /\ SentBy(r) = 1

\* the login of request r has failed its lookup or its password check
LoginRefused(r) ==
    /\ req[r].kind = "Login"
    /\ \/ wl[r].lookup \in {"nodoc", "error"}
       \/ wl[r].lookup = "found" /\ wl[r].user.password # HashOf(req[r].password)

\* C23: a stored token pair changes only in the token update of a Login
\* whose lookup returned the user of the submitted email and whose password
\* matched that user's hash; a login refused for an unknown email, a wrong
\* password or a failed lookup sends an error, never succeeds, and no user
\* record ever holds a token of it.
C23_TokensOnlyAfterVerification ==
    /\ [][(\E i \in 1..Len(users) :
               \/ users'[i].token # users[i].token
               \/ users'[i].refresh_token # users[i].refresh_token)
           => \E r \in Req :
                 /\ req[r].kind = "Login"
                 /\ wpc[r] = "update" /\ wpc'[r] = "sendOk"
                 /\ wl[r].lookup = "found"
                 /\ wl[r].user.email = req[r].email
                 /\ wl[r].user.password = HashOf(req[r].password)
                 /\ \E k \in 1..Len(users) :
                       /\ users[k].email = req[r].email
                       /\ users[k].password = HashOf(req[r].password)]_vars
    /\ [](\A r \in Req : LoginRefused(r) =>
            /\ wpc[r] \in {"sendErr", "done"}
            /\ okCh[r] = <<>>
            /\ hl[r].outcome # "success"
            /\ resp[r] # <<>> => Code(r) \in {401, 408}
            /\ \A i \in 1..Len(users) :
                  /\ users[i].token # AccessToken(users[i].user_id, r)
                  /\ users[i].refresh_token # RefreshToken(users[i].user_id, r)
            /\ wl[r].pending \in {UnknownEmailMsg, WrongPasswordMsg})

\* C23 witness: a login whose lookup failed in the store was answered 401
\* while Alice's record kept the pair of an earlier successful login
C23_RefusedAfterStoreError ==
    \E r, q \in Req :
        /\ LoginRefused(r) /\ wl[r].lookup = "error"
        /\ hl[r].outcome = "error" /\ Code(r) = 401
        /\ req[q].kind = "Login" /\ hl[q].outcome = "success"
        /\ \E i \in 1..Len(users) :
              /\ users[i].email = req[r].email
              /\ users[i].token = AccessToken(users[i].user_id, q)
              /\ users[i].refresh_token = RefreshToken(users[i].user_id, q)

\* C24: RegisterUser answers 201 only when its worker's insert has taken
\* effect, and the id and email of the 201 body are those of the document
\* this request inserted; the error answer carries the error the worker sent
\* and the timeout answer a fixed text, neither anything of the user record.
C24_CreatedMeansInserted ==
    \A r \in Req :
        (req[r].kind = "RegisterUser" /\ resp[r] # <<>>) =>
            /\ hl[r].outcome = "success" => (Inserted(r) /\ wpc[r] = "done")
            /\ Code(r) = 201 =>
                  /\ hl[r].outcome = "success"
                  /\ \E i \in 1..Len(users) :
                        /\ users[i].user_id = NewObjectID(r)
                        /\ Body(r).id = users[i].user_id
                        /\ Body(r).email = users[i].email
                        /\ Body(r).email = req[r].email
            /\ hl[r].outcome = "error" =>
                  (Code(r) \in {409, 500} /\ Body(r) = wl[r].pending /\ ~Inserted(r))
            /\ hl[r].outcome = "timeout" => (Code(r) = 408 /\ Body(r) = "request timeout")

\* C24 witness: a registration of b@x answered 201 with the id and email of
\* the document it appended to the collection
C24_RegisteredBob ==
    \E r \in Req :
        /\ req[r].kind = "RegisterUser" /\ req[r].email = "b@x"
        /\ resp[r] # <<>> /\ Code(r) = 201
        /\ Body(r).id = NewObjectID(r) /\ Body(r).email = "b@x"
        /\ users[Len(users)].user_id = NewObjectID(r)
        /\ users[Len(users)].email = "b@x"

ReadKinds == {"GetMovies", "GetMovie", "GetTopRatedMovies", "GetMoviesByGenre",
              "GetRecommendedMovies"}

\* C25: no step taken for a request of a read handler changes the User or
\* the Movie collection, whatever the outcome, the steps of a worker that
\* goes on after the timeout answer included.
C25_ReadsLeaveCollections ==
    [][\A r \in Req :
          (req[r].kind \in ReadKinds /\ (hpc'[r] # hpc[r] \/ wpc'[r] # wpc[r]
                                          \/ tch'[r] # tch[r]))
          => (users' = users /\ movies' = movies)]_vars

\* C25 witness: GetTopRatedMovies answered 408, its worker finished its query
\* afterwards, and the catalog is the large catalog it started from
C25_LateReadSameCatalog ==
    \E r \in Req :
        /\ req[r].kind = "GetTopRatedMovies"
        /\ hl[r].outcome = "timeout" /\ Code(r) = 408
        /\ wpc[r] = "done" /\ Len(okCh[r]) + Len(errCh[r]) = 1
        /\ movies = BigCatalog

====
